---- MODULE Spec2Model ----
(***************************************************************************)
(* Model of src/types/contact_methods.in.rs: the ContactMethod tagged      *)
(* union, its flat carrier ContactMethodUnion, the hand-written Serialize  *)
(* and Deserialize impls, and the ContactMethods collection.               *)
(*                                                                         *)
(* Wire values are JSON values [t |-> <json type>, v |-> <payload>]; a     *)
(* JSON object's payload is the ORDERED sequence of its <<key, value>>     *)
(* pairs (keys unique), so key order is observable.  Option<T> is a        *)
(* sequence of length 0 (None) or 1 (Some).  A call ends in one of three   *)
(* ways: Ok(value), Err(error) returned to the caller, or a panic that     *)
(* unwinds through the caller.  JSON numbers are the integers TLC holds    *)
(* (below 2^31), so a number is outside u32 exactly when it is negative.   *)
(***************************************************************************)
EXTENDS Integers, Sequences, FiniteSets, TLC

\* ------------------------------------------------------------------ bounds
MaxLen == 2        \* longest wire array / collection drawn in Init
MaxPerturb == 2    \* fields of a sample wire object changed at once
MaxSounds == 2     \* longest sounds sequence drawn in Init

\* ------------------------------------------------------------ wire values
JStr(s)  == [t |-> "string", v |-> s]
JBool(b) == [t |-> "bool",   v |-> b]
JNum(n)  == [t |-> "number", v |-> n]
JNull    == [t |-> "null",   v |-> "null"]
JArr(xs) == [t |-> "array",  v |-> xs]
JObj(ps) == [t |-> "object", v |-> ps]

\* Option<T>
None == << >>
Some(x) == << x >>

\* outcomes of a call
Ok(x) == [kind |-> "ok", value |-> x]
Err(e, f) == [kind |-> "err", error |-> e, field |-> f]
Panicked(m) == [kind |-> "panic", msg |-> m]

Range(s) == { s[i] : i \in DOMAIN s }
Keys(ps) == [ i \in DOMAIN ps |-> ps[i][1] ]
HasKey(ps, k) == \E i \in DOMAIN ps : ps[i][1] = k
ValueOf(ps, k) == ps[CHOOSE i \in DOMAIN ps : ps[i][1] = k][2]

\* ----------------------------------------------------- ContactMethodUnion
\* the struct's fields by wire name, in declaration order
UnionFields ==
    << "id", "summary", "type", "self", "html_url",
       "address", "label", "send_short_email", "send_html_email",
       "blacklisted", "country_code", "enabled", "created_at",
       "device_type", "sounds" >>

\* the declared type of each field
FieldType(f) ==
    CASE f \in {"id", "summary", "type", "self"} -> "String"
      [] f \in {"html_url", "address", "label", "created_at", "device_type"}
            -> "OptString"
      [] f \in {"send_short_email", "send_html_email", "blacklisted", "enabled"}
            -> "OptBool"
      [] f = "country_code" -> "OptU32"
      [] f = "sounds" -> "OptSounds"

\* PushContactMethodSound: file: String, type: String
SoundFields == << "file", "type" >>

\* derived Deserialize of PushContactMethodSound from one wire value
SoundDeserialize(w) ==
    IF w.t # "object" THEN Err("InvalidType", "sounds")
    ELSE LET ps == w.v
             known == { i \in DOMAIN ps : ps[i][1] \in Range(SoundFields) }
             bad == { i \in known : ps[i][2].t # "string" }
         IN  IF bad # {} THEN Err("InvalidType", ps[CHOOSE i \in bad : \A j \in bad : i <= j][1])
             ELSE IF ~HasKey(ps, "file") THEN Err("MissingField", "file")
             ELSE IF ~HasKey(ps, "type") THEN Err("MissingField", "type")
             ELSE Ok([file |-> ValueOf(ps, "file").v, type_ |-> ValueOf(ps, "type").v])

\* Deserialize of one field's wire value at its declared type
FieldDeserialize(f, w) ==
    LET ty == FieldType(f) IN
    CASE ty = "String" ->
            IF w.t = "string" THEN Ok(w.v) ELSE Err("InvalidType", f)
      [] ty = "OptString" ->
            IF w.t = "null" THEN Ok(None)
            ELSE IF w.t = "string" THEN Ok(Some(w.v)) ELSE Err("InvalidType", f)
      [] ty = "OptBool" ->
            IF w.t = "null" THEN Ok(None)
            ELSE IF w.t = "bool" THEN Ok(Some(w.v)) ELSE Err("InvalidType", f)
      [] ty = "OptU32" ->
            IF w.t = "null" THEN Ok(None)
            ELSE IF w.t = "number" /\ w.v >= 0 THEN Ok(Some(w.v))
            ELSE Err("InvalidType", f)
      [] ty = "OptSounds" ->
            IF w.t = "null" THEN Ok(None)
            ELSE IF w.t # "array" THEN Err("InvalidType", f)
            ELSE LET rs == [ i \in DOMAIN w.v |-> SoundDeserialize(w.v[i]) ]
                     bad == { i \in DOMAIN rs : rs[i].kind # "ok" }
                 IN  IF bad # {} THEN rs[CHOOSE i \in bad : \A j \in bad : i <= j]
                     ELSE Ok(Some([ i \in DOMAIN rs |-> rs[i].value ]))

\* a field the wire object does not carry: Option fields default to None,
\* the others are an error
\* (fault: a missing String defaulted to the empty string)
MissingFieldValue_Default(f) ==
    IF FieldType(f) = "String" THEN Ok("") ELSE Ok(None)

MissingFieldValue(f) ==
    IF FieldType(f) = "String" THEN Err("MissingField", f) ELSE Ok(None)

\* derived Deserialize of ContactMethodUnion from one wire value: the keys are
\* visited in wire order (unknown keys skipped, each known value deserialized at
\* its declared type, the first failure returned), then the fields still unset
\* are filled in declaration order
UnionDeserialize(w) ==
    IF w.t # "object" THEN Err("InvalidType", "")
    ELSE LET ps == w.v
             known == { i \in DOMAIN ps : ps[i][1] \in Range(UnionFields) }
             bad == { i \in known : FieldDeserialize(ps[i][1], ps[i][2]).kind # "ok" }
             got == [ n \in DOMAIN UnionFields |->
                        IF HasKey(ps, UnionFields[n])
                        THEN FieldDeserialize(UnionFields[n], ValueOf(ps, UnionFields[n]))
                        ELSE MissingFieldValue(UnionFields[n]) ]
             miss == { n \in DOMAIN got : got[n].kind # "ok" }
             val(f) == got[CHOOSE n \in DOMAIN UnionFields : UnionFields[n] = f].value
         IN  IF bad # {}
             THEN LET i == CHOOSE i \in bad : \A j \in bad : i <= j
                  IN  FieldDeserialize(ps[i][1], ps[i][2])
             ELSE IF miss # {} THEN got[CHOOSE n \in miss : \A m \in miss : n <= m]
             ELSE Ok([ id |-> val("id"), summary |-> val("summary"),
                       type_ |-> val("type"), self_ |-> val("self"),
                       html_url |-> val("html_url"),
                       address |-> val("address"), label |-> val("label"),
                       send_short_email |-> val("send_short_email"),
                       send_html_email |-> val("send_html_email"),
                       blacklisted |-> val("blacklisted"),
                       country_code |-> val("country_code"),
                       enabled |-> val("enabled"),
                       created_at |-> val("created_at"),
                       device_type |-> val("device_type"),
                       sounds |-> val("sounds") ])

\* -------------------------------------------------------------- Reference
\* the five tags that select ContactMethodReference
ReferenceTags ==
    { "contact_method_reference", "email_contact_method_reference",
      "phone_contact_method_reference", "sms_contact_method_reference",
      "push_notification_contact_method_reference" }

\* the four tags that select a concrete case
ConcreteTags ==
    { "email_contact_method", "phone_contact_method", "sms_contact_method",
      "push_notification_contact_method" }

\* Reference { id, summary, type_, self_, html_url } built from the union
\* (fault: the reference sub-type tags collapsed to the plain one)
MkReference_Collapsed(u) ==
    [ id |-> u.id, summary |-> u.summary,
      type_ |-> IF u.type_ \in ReferenceTags THEN "contact_method_reference"
                ELSE u.type_,
      self_ |-> u.self_, html_url |-> u.html_url ]

MkReference(u) ==
    [ id |-> u.id, summary |-> u.summary, type_ |-> u.type_,
      self_ |-> u.self_, html_url |-> u.html_url ]

\* Option::expect over the fields of a struct literal, evaluated in the order
\* written: the first None panics with its message
RECURSIVE ExpectAll(_, _, _)
ExpectAll(opts, msgs, i) ==
    IF i > Len(opts) THEN "" 
    ELSE IF opts[i] = None THEN msgs[i]
    ELSE ExpectAll(opts, msgs, i + 1)

\* the fields each concrete arm of the match unwraps, in the order written
EmailExpected == << "address", "label", "send_short_email", "send_html_email" >>

\* (fault: the phone arm unwrapping the sms arm's fields)
PhoneExpected_AsSms ==
    << "address", "label", "blacklisted", "country_code", "enabled" >>

PhoneExpected == << "address", "label", "blacklisted", "country_code" >>

SmsExpected == << "address", "label", "blacklisted", "country_code", "enabled" >>

PushExpected ==
    << "address", "label", "blacklisted", "created_at", "device_type", "sounds" >>

ExpectedFields(tag) ==
    CASE tag = "email_contact_method" -> EmailExpected
      [] tag = "phone_contact_method" -> PhoneExpected
      [] tag = "sms_contact_method" -> SmsExpected
      [] tag = "push_notification_contact_method" -> PushExpected
      [] OTHER -> << >>

\* the union's Option field of that wire name
UnionField(u, f) ==
    CASE f = "address" -> u.address
      [] f = "label" -> u.label
      [] f = "send_short_email" -> u.send_short_email
      [] f = "send_html_email" -> u.send_html_email
      [] f = "blacklisted" -> u.blacklisted
      [] f = "country_code" -> u.country_code
      [] f = "enabled" -> u.enabled
      [] f = "created_at" -> u.created_at
      [] f = "device_type" -> u.device_type
      [] f = "sounds" -> u.sounds
      [] f = "html_url" -> u.html_url

\* the match on reference.type_ of ContactMethod::deserialize
Resolve(u) ==
    LET reference == MkReference(u)
        tag == reference.type_
        fs == ExpectedFields(tag)
        failed == ExpectAll([ i \in DOMAIN fs |-> UnionField(u, fs[i]) ], fs, 1)
    IN  IF tag \in ReferenceTags
        THEN Ok([ case |-> "ContactMethodReference", reference |-> reference ])
        ELSE IF tag \notin ConcreteTags THEN Panicked("fuuuuuuu")
        ELSE IF failed # "" THEN Panicked(failed)
        ELSE CASE tag = "email_contact_method" ->
                    Ok([ case |-> "EmailContactMethod", reference |-> reference,
                         address |-> u.address[1], label |-> u.label[1],
                         send_short_email |-> u.send_short_email[1],
                         send_html_email |-> u.send_html_email[1] ])
               [] tag = "phone_contact_method" ->
                    Ok([ case |-> "PhoneContactMethod", reference |-> reference,
                         address |-> u.address[1], label |-> u.label[1],
                         blacklisted |-> u.blacklisted[1],
                         country_code |-> u.country_code[1] ])
               [] tag = "sms_contact_method" ->
                    Ok([ case |-> "SmsContactMethod", reference |-> reference,
                         address |-> u.address[1], label |-> u.label[1],
                         blacklisted |-> u.blacklisted[1],
                         country_code |-> u.country_code[1],
                         enabled |-> u.enabled[1] ])
               [] tag = "push_notification_contact_method" ->
                    Ok([ case |-> "PushNotificationContactMethod",
                         reference |-> reference,
                         address |-> u.address[1], label |-> u.label[1],
                         blacklisted |-> u.blacklisted[1],
                         created_at |-> u.created_at[1],
                         device_type |-> u.device_type[1],
                         sounds |-> u.sounds[1] ])

\* ContactMethod::deserialize: unpack the union (an error returns through `?`),
\* then match
\* (fault: the union unwrapped instead of propagated with `?`)
ContactMethodDeserialize_Unwrap(w) ==
    LET union == UnionDeserialize(w)
    IN  IF union.kind # "ok" THEN Panicked("unwrap") ELSE Resolve(union.value)

ContactMethodDeserialize(w) ==
    LET union == UnionDeserialize(w)
    IN  IF union.kind # "ok" THEN union ELSE Resolve(union.value)

\* ---------------------------------------------------------------- encode
\* Reference::serialize_key_vals: id, summary, type, self, then html_url when
\* it is present
ReferenceKeyVals(reference) ==
    << << "id", JStr(reference.id) >>, << "summary", JStr(reference.summary) >>,
       << "type", JStr(reference.type_) >>, << "self", JStr(reference.self_) >> >>
    \o ( IF reference.html_url = None THEN << >>
         ELSE << << "html_url", JStr(reference.html_url[1]) >> >> )

\* derived Serialize of PushContactMethodSound
SoundSerialize(s) ==
    JObj(<< << "file", JStr(s.file) >>, << "type", JStr(s.type_) >> >>)

\* the keys and values each arm of ContactMethod::serialize writes after the
\* reference's
\* (fault: the two flags written under each other's key)
EmailKeyVals_SwappedFlags(cm) ==
    << << "address", JStr(cm.address) >>, << "label", JStr(cm.label) >>,
       << "send_short_email", JBool(cm.send_html_email) >>,
       << "send_html_email", JBool(cm.send_short_email) >> >>

EmailKeyVals(cm) ==
    << << "address", JStr(cm.address) >>, << "label", JStr(cm.label) >>,
       << "send_short_email", JBool(cm.send_short_email) >>,
       << "send_html_email", JBool(cm.send_html_email) >> >>

\* (fault: the keys written in the order the enum declares the fields)
PhoneKeyVals_StructOrder(cm) ==
    << << "address", JStr(cm.address) >>, << "label", JStr(cm.label) >>,
       << "blacklisted", JBool(cm.blacklisted) >>,
       << "country_code", JNum(cm.country_code) >> >>

PhoneKeyVals(cm) ==
    << << "address", JStr(cm.address) >>, << "label", JStr(cm.label) >>,
       << "country_code", JNum(cm.country_code) >>,
       << "blacklisted", JBool(cm.blacklisted) >> >>

SmsKeyVals(cm) ==
    << << "address", JStr(cm.address) >>, << "label", JStr(cm.label) >>,
       << "country_code", JNum(cm.country_code) >>,
       << "blacklisted", JBool(cm.blacklisted) >>,
       << "enabled", JBool(cm.enabled) >> >>

PushKeyVals(cm) ==
    << << "address", JStr(cm.address) >>, << "label", JStr(cm.label) >>,
       << "device_type", JStr(cm.device_type) >>,
       << "sounds", JArr([ i \in DOMAIN cm.sounds |-> SoundSerialize(cm.sounds[i]) ]) >>,
       << "blacklisted", JBool(cm.blacklisted) >>,
       << "created_at", JStr(cm.created_at) >> >>

\* the match of ContactMethod::serialize
CaseKeyVals(cm) ==
    CASE cm.case = "ContactMethodReference" -> << >>
      [] cm.case = "EmailContactMethod" -> EmailKeyVals(cm)
      [] cm.case = "PhoneContactMethod" -> PhoneKeyVals(cm)
      [] cm.case = "SmsContactMethod" -> SmsKeyVals(cm)
      [] cm.case = "PushNotificationContactMethod" -> PushKeyVals(cm)

\* ContactMethod::serialize
ContactMethodSerialize(cm) ==
    JObj(ReferenceKeyVals(cm.reference) \o CaseKeyVals(cm))

\* Vec<ContactMethod>::serialize
VecSerialize(cms) == [ i \in DOMAIN cms |-> ContactMethodSerialize(cms[i]) ]

\* ----------------------------------------------------------------- inputs
\* type strings that match no arm of the match
UnknownTags == { "EMAIL_CONTACT_METHOD", "user_reference" }

Tags == ReferenceTags \cup ConcreteTags \cup UnknownTags

\* a well-typed wire value for each field (the values of the test's data)
SampleValue(f) ==
    CASE f = "id" -> JStr("P33R0ZA")
      [] f = "summary" -> JStr("Work")
      [] f = "self" -> JStr("https://api.pagerduty.com/users/PZ7JFQ7")
      [] f = "html_url" -> JStr("https://subdomain.pagerduty.com/users/PZ7JFQ7")
      [] f = "address" -> JStr("4155809923")
      [] f = "label" -> JStr("Mobile")
      [] f = "send_short_email" -> JBool(FALSE)
      [] f = "send_html_email" -> JBool(TRUE)
      [] f = "blacklisted" -> JBool(FALSE)
      [] f = "country_code" -> JNum(1)
      [] f = "enabled" -> JBool(TRUE)
      [] f = "created_at" -> JStr("2016-07-11T11:36:41-07:00")
      [] f = "device_type" -> JStr("ios")
      [] f = "sounds" ->
            JArr(<< JObj(<< << "file", JStr("default") >>,
                            << "type", JStr("alert_high_urgency") >> >>) >>)
      [] f = "type" -> JStr("contact_method_reference")
      [] OTHER -> JStr("ignored")

\* a second well-typed wire value for each field
OtherValue(f) ==
    CASE f \notin Range(UnionFields) -> JNum(3)
      [] FieldType(f) = "OptBool" -> JBool(~SampleValue(f).v)
      [] f = "country_code" -> JNum(44)
      [] f = "sounds" -> JArr(<< >>)
      [] OTHER -> JStr("other")

\* a wire value of the wrong JSON type for each field
BadValue(f) ==
    CASE f \notin Range(UnionFields) -> JBool(TRUE)
      [] f = "country_code" -> JStr("1")
      [] FieldType(f) \in {"String", "OptString"} -> JNum(7)
      [] OTHER -> JStr("yes")

\* the fields, besides the reference, that the enum declares for the case
\* each concrete type string names
CaseFields(tag) ==
    CASE tag = "email_contact_method" ->
            << "address", "label", "send_short_email", "send_html_email" >>
      [] tag = "phone_contact_method" ->
            << "address", "label", "blacklisted", "country_code" >>
      [] tag = "sms_contact_method" ->
            << "address", "label", "blacklisted", "country_code", "enabled" >>
      [] tag = "push_notification_contact_method" ->
            << "address", "label", "blacklisted", "created_at", "device_type",
               "sounds" >>
      [] OTHER -> << >>

\* the wire object of a record of that type carrying the four reference
\* fields and exactly the fields its case needs
Canonical(tag) ==
    LET fs == CaseFields(tag)
    IN  JObj(<< << "id", SampleValue("id") >>, << "summary", SampleValue("summary") >>,
                << "type", JStr(tag) >>, << "self", SampleValue("self") >> >>
             \o [ i \in DOMAIN fs |-> << fs[i], SampleValue(fs[i]) >> ])

\* one change to one key of a wire object:
\*   toggle: remove the key when present, add it with its sample value when not
\*   null / bad / other / range / inner: set (or add) the key with that value
ChangedValue(f, k) ==
    CASE k = "null" -> JNull
      [] k = "bad" -> BadValue(f)
      [] k = "other" -> OtherValue(f)
      [] k = "range" -> JNum(-1)
      [] k = "inner" -> JArr(<< JObj(<< << "file", JStr("default") >> >>) >>)
      [] OTHER -> SampleValue(f)

ExtraKey == "teams"
AllKeys == Range(UnionFields) \cup {ExtraKey}

\* the changes Init draws from
Changes ==
    { << f, "toggle" >> : f \in AllKeys }
    \cup { << f, "bad" >> : f \in { "id", "summary", "type", "html_url", "address",
                                     "send_short_email", "blacklisted",
                                     "country_code", "enabled", "sounds" } }
    \cup {
           << "summary", "null" >>, << "html_url", "null" >>, << "address", "null" >>,
           << "country_code", "range" >>, << "sounds", "inner" >> }

\* every change of one key (the formulas range over these)
AllChanges ==
    { << f, k >> \in AllKeys \X {"toggle", "null", "bad", "other"} : TRUE }
    \cup { << "country_code", "range" >>, << "sounds", "inner" >> }

\* sets of at most n changes, no two of the same key
RECURSIVE ChangeSets(_)
ChangeSets(n) ==
    IF n = 0 THEN { {} }
    ELSE LET smaller == ChangeSets(n - 1)
         IN  smaller \cup
             { P \cup {c} : << P, c >> \in
                 { pc2 \in smaller \X Changes :
                     \A p \in pc2[1] : p[1] # pc2[2][1] } }

\* the wire object w with the changes P made: changed keys in place, added
\* keys appended in the order of UnionFields
Change(w, P) ==
    LET ps == w.v
        kind(f) == (CHOOSE p \in P : p[1] = f)[2]
        touched(f) == \E p \in P : p[1] = f
        keep(pair) == ~(touched(pair[1]) /\ kind(pair[1]) = "toggle")
        kept == SelectSeq(ps, keep)
        inplace == [ i \in DOMAIN kept |->
                       IF touched(kept[i][1])
                       THEN << kept[i][1], ChangedValue(kept[i][1], kind(kept[i][1])) >>
                       ELSE kept[i] ]
        order == UnionFields \o << ExtraKey >>
        new(f) == touched(f) /\ ~HasKey(ps, f)
        added == SelectSeq(order, new)
    IN  JObj(inplace \o [ i \in DOMAIN added |->
                            << added[i], ChangedValue(added[i], kind(added[i])) >> ])

\* single wire objects: every type string, up to MaxPerturb keys changed
RichObjects == { Change(Canonical(t), P) : t \in Tags, P \in ChangeSets(MaxPerturb) }

\* the elements of the longer wire arrays
ArrayTags ==
    { "email_contact_method_reference", "email_contact_method",
      "sms_contact_method", "push_notification_contact_method", "user_reference" }
ArrayObjects ==
    { Change(Canonical(t), P) :
        t \in ArrayTags,
        P \in { {}, { << "summary", "toggle" >> }, { << "address", "toggle" >> } } }

SeqsUpTo(S, n) == UNION { [ 1..k -> S ] : k \in 0..n }

WireInputs == { << w >> : w \in RichObjects } \cup SeqsUpTo(ArrayObjects, MaxLen)

\* variants built directly (not by the decoder); the type string of a
\* Reference is a free String, so it need not select the variant's case
SampleSounds ==
    { [ file |-> "default", type_ |-> "alert_high_urgency" ],
      [ file |-> "chime", type_ |-> "alert_low_urgency" ] }

SampleReference(tag, url) ==
    [ id |-> "PPPIOPG", summary |-> "Default", type_ |-> tag,
      self_ |-> "https://api.pagerduty.com/users/PZ7JFQ7", html_url |-> url ]

DirectVariants ==
    { [ case |-> "ContactMethodReference", reference |-> SampleReference(t, url) ] :
        t \in { "contact_method_reference", "sms_contact_method_reference",
                "email_contact_method" },
        url \in { None, Some("https://subdomain.pagerduty.com/x") } }
    \cup
    { [ case |-> "EmailContactMethod", reference |-> SampleReference(t, None),
        address |-> "alejandro@example.com", label |-> "Work",
        send_short_email |-> FALSE, send_html_email |-> TRUE ] :
        t \in { "email_contact_method", "sms_contact_method" } }
    \cup
    { [ case |-> "PhoneContactMethod",
        reference |-> SampleReference("phone_contact_method", url),
        address |-> "7076949626", label |-> "Mobile", blacklisted |-> TRUE,
        country_code |-> 44 ] :
        url \in { None, Some("https://subdomain.pagerduty.com/x") } }
    \cup
    { [ case |-> "SmsContactMethod",
        reference |-> SampleReference("sms_contact_method", None),
        address |-> "4155809923", label |-> "Mobile", blacklisted |-> FALSE,
        country_code |-> 1, enabled |-> TRUE ] }
    \cup
    { [ case |-> "PushNotificationContactMethod",
        reference |-> SampleReference(t, None),
        address |-> "fcbaba06", label |-> "iPhone", blacklisted |-> FALSE,
        created_at |-> "2016-07-11T11:36:41-07:00", device_type |-> "ios",
        sounds |-> ss ] :
        t \in { "push_notification_contact_method" },
        ss \in SeqsUpTo(SampleSounds, MaxSounds) }
    \cup
    { [ case |-> "PushNotificationContactMethod",
        reference |-> SampleReference("user_reference", None),
        address |-> "fcbaba06", label |-> "iPhone", blacklisted |-> FALSE,
        created_at |-> "2016-07-11T11:36:41-07:00", device_type |-> "ios",
        sounds |-> << >> ] }

DirectCollections == SeqsUpTo(DirectVariants, MaxLen)

\* ------------------------------------------------------------------ state
VARIABLES
    origin,     \* "wire": the caller decodes wire, then encodes the result
                \* "value": the caller encodes variants, then decodes the output
    wire,       \* the JSON array handed to serde_json::from_str
    idx,        \* the element the Vec visitor will read next
    acc,        \* the elements it has built so far
    result,     \* how the decode call ended
    variants,   \* the ContactMethods value handed to serde_json::to_string
    out,        \* the JSON array the encode call wrote
    pc

vars == << origin, wire, idx, acc, result, variants, out, pc >>

Pending == [ kind |-> "pending" ]

Init ==
    /\ idx = 1
    /\ acc = << >>
    /\ result = Pending
    /\ out = << >>
    /\ \/ /\ origin = "wire"
          /\ wire \in WireInputs
          /\ variants = << >>
          /\ pc = "deserialize"
       \/ /\ origin = "value"
          /\ variants \in DirectCollections
          /\ wire = << >>
          /\ pc = "serialize"

\* Vec<ContactMethod>::deserialize, one element: the element's error returns
\* at once and its panic unwinds, dropping the elements built so far
\* (fault: the element pushed to the front)
DeserializeElement_Prepend ==
    /\ pc = "deserialize"
    /\ idx <= Len(wire)
    /\ LET r == ContactMethodDeserialize(wire[idx])
       IN  IF r.kind = "ok"
           THEN /\ acc' = << r.value >> \o acc
                /\ idx' = idx + 1
                /\ UNCHANGED << result, pc >>
           ELSE /\ result' = r
                /\ pc' = "done"
                /\ acc' = << >>
                /\ UNCHANGED idx
    /\ UNCHANGED << origin, wire, variants, out >>

\* (fault: a failing element skipped and the rest kept)
DeserializeElement_Skip ==
    /\ pc = "deserialize"
    /\ idx <= Len(wire)
    /\ LET r == ContactMethodDeserialize(wire[idx])
       IN  acc' = IF r.kind = "ok" THEN Append(acc, r.value) ELSE acc
    /\ idx' = idx + 1
    /\ UNCHANGED << origin, wire, variants, out, result, pc >>

DeserializeElement ==
    /\ pc = "deserialize"
    /\ idx <= Len(wire)
    /\ LET r == ContactMethodDeserialize(wire[idx])
       IN  IF r.kind = "ok"
           THEN /\ acc' = Append(acc, r.value)
                /\ idx' = idx + 1
                /\ UNCHANGED << result, pc >>
           ELSE /\ result' = r
                /\ pc' = "done"
                /\ acc' = << >>
                /\ UNCHANGED idx
    /\ UNCHANGED << origin, wire, variants, out >>

\* Vec<ContactMethod>::deserialize, end of the array
DeserializeEnd ==
    /\ pc = "deserialize"
    /\ idx > Len(wire)
    /\ result' = Ok(acc)
    /\ variants' = IF origin = "wire" THEN acc ELSE variants
    /\ pc' = IF origin = "wire" THEN "serialize" ELSE "done"
    /\ UNCHANGED << origin, wire, idx, acc, out >>

\* serde_json::to_string(&contact_methods)
Serialize ==
    /\ pc = "serialize"
    /\ out' = VecSerialize(variants)
    /\ wire' = IF origin = "value" THEN VecSerialize(variants) ELSE wire
    /\ pc' = IF origin = "value" THEN "deserialize" ELSE "done"
    /\ UNCHANGED << origin, idx, acc, result, variants >>

Next == DeserializeElement \/ DeserializeEnd \/ Serialize

Spec == Init /\ [][Next]_vars

\* ------------------------------------------------------- shared vocabulary
\* a decode call of a one-element array has ended
Single == origin = "wire" /\ Len(wire) = 1 /\ pc # "deserialize"

\* how that call ended, as the outcome of its one element
Outcome == IF result.kind = "ok" THEN Ok(result.value[1]) ELSE result

\* the wire object carries key f
Carries(w, f) == HasKey(w.v, f)

\* every key of F the wire object carries holds a value of its declared type
WellTyped(w, F) ==
    \A i \in DOMAIN w.v :
        w.v[i][1] \in F \cap Range(UnionFields)
            => FieldDeserialize(w.v[i][1], w.v[i][2]).kind = "ok"

\* the wire object carries key f with a value that is Some(_) once unpacked
Present(w, f) ==
    /\ Carries(w, f)
    /\ FieldDeserialize(f, ValueOf(w.v, f)).kind = "ok"
    /\ FieldDeserialize(f, ValueOf(w.v, f)).value # None

\* the type string of a wire object that carries one
TypeOf(w) == ValueOf(w.v, "type").v

\* the first key of fs (in order) the wire object does not carry, "" if none
RECURSIVE FirstAbsent(_, _, _)
FirstAbsent(w, fs, i) ==
    IF i > Len(fs) THEN ""
    ELSE IF ~Carries(w, fs[i]) THEN fs[i]
    ELSE FirstAbsent(w, fs, i + 1)

\* the variant's type string selects the variant's own case
ValidVariant(cm) ==
    LET tag == cm.reference.type_
    IN  CASE cm.case = "ContactMethodReference" -> tag \in ReferenceTags
          [] cm.case = "EmailContactMethod" -> tag = "email_contact_method"
          [] cm.case = "PhoneContactMethod" -> tag = "phone_contact_method"
          [] cm.case = "SmsContactMethod" -> tag = "sms_contact_method"
          [] cm.case = "PushNotificationContactMethod" ->
                tag = "push_notification_contact_method"

\* ---------------------------------------------------------------- claims

\* C1: round trip.  Encoding a collection of valid variants (each one's type
\* string selecting its own case) and decoding the output gives the same
\* collection back, field for field, the order of the collection and of
\* every sounds sequence kept.
C1_RoundTrip ==
    ( /\ origin = "value"
      /\ pc = "done"
      /\ \A i \in DOMAIN variants : ValidVariant(variants[i]) )
    => result = Ok(variants)

\* a two-element valid collection, holding a push notification with two
\* different sounds and a variant with html_url, has gone round
C1_Witness ==
    /\ origin = "value"
    /\ pc = "done"
    /\ Len(variants) = 2
    /\ variants[1] # variants[2]
    /\ \A i \in DOMAIN variants : ValidVariant(variants[i])
    /\ \E i \in DOMAIN variants :
          /\ variants[i].case = "PushNotificationContactMethod"
          /\ Len(variants[i].sounds) = 2
          /\ variants[i].sounds[1] # variants[i].sounds[2]
    /\ \E i \in DOMAIN variants : variants[i].reference.html_url # None
    /\ result.kind = "ok"

\* C2: unknown discriminant.  A record that unpacks and whose type string is
\* none of the nine tags is answered with the error UnknownDiscriminant(value),
\* returned to the caller.
C2_UnknownDiscriminant ==
    ( /\ Single
      /\ UnionDeserialize(wire[1]).kind = "ok"
      /\ TypeOf(wire[1]) \notin ReferenceTags \cup ConcreteTags )
    => result = Err("UnknownDiscriminant", TypeOf(wire[1]))

\* C3: missing-field rejection.  A concrete record that lacks exactly one
\* field its case requires is answered with the error MissingField naming
\* that field, returned to the caller; one that lacks only html_url decodes.
C3_MissingFieldRejected ==
    Single =>
        \A t \in ConcreteTags :
            /\ \A n \in DOMAIN CaseFields(t) :
                  wire[1] = Change(Canonical(t), { << CaseFields(t)[n], "toggle" >> })
                      => result = Err("MissingField", CaseFields(t)[n])
            /\ wire[1] = Canonical(t) => result.kind = "ok"

\* C4: discriminant exhaustiveness.  A record with one of the nine tags and
\* every field of its case present decodes to the matching case, the
\* Reference keeps the type string as it came, and encoding writes it back.
C4_Exhaustive ==
    ( /\ Single
      /\ UnionDeserialize(wire[1]).kind = "ok"
      /\ TypeOf(wire[1]) \in ReferenceTags \cup ConcreteTags
      /\ \A n \in DOMAIN CaseFields(TypeOf(wire[1])) :
            Present(wire[1], CaseFields(TypeOf(wire[1]))[n]) )
    => LET tag == TypeOf(wire[1])
       IN  /\ result.kind = "ok"
           /\ result.value[1].case =
                 ( CASE tag \in ReferenceTags -> "ContactMethodReference"
                     [] tag = "email_contact_method" -> "EmailContactMethod"
                     [] tag = "phone_contact_method" -> "PhoneContactMethod"
                     [] tag = "sms_contact_method" -> "SmsContactMethod"
                     [] tag = "push_notification_contact_method" ->
                           "PushNotificationContactMethod" )
           /\ result.value[1].reference.type_ = tag
           /\ pc = "done" => /\ Len(out) = 1
                             /\ ValueOf(out[1].v, "type") = JStr(tag)

\* a record tagged with a reference sub-type other than the plain one has
\* been decoded to the Reference-only case and encoded again
C4_Witness ==
    /\ Single
    /\ pc = "done"
    /\ Carries(wire[1], "type")
    /\ ValueOf(wire[1].v, "type") = JStr("push_notification_contact_method_reference")
    /\ result.kind = "ok"
    /\ result.value[1].case = "ContactMethodReference"
    /\ Len(out) = 1

\* C5: key-order stability.  Every encoded variant carries the Reference keys
\* id, summary, type, self, html_url (the last only when present), then
\* exactly the keys of its case in the fixed order, none twice.
C5_KeyOrder ==
    pc = "done" =>
        /\ Len(out) = Len(variants)
        /\ \A i \in DOMAIN variants :
              LET cm == variants[i]
                  refkeys == IF cm.reference.html_url = None
                             THEN << "id", "summary", "type", "self" >>
                             ELSE << "id", "summary", "type", "self", "html_url" >>
                  casekeys ==
                      CASE cm.case = "ContactMethodReference" -> << >>
                        [] cm.case = "EmailContactMethod" ->
                              << "address", "label", "send_short_email",
                                 "send_html_email" >>
                        [] cm.case = "PhoneContactMethod" ->
                              << "address", "label", "country_code", "blacklisted" >>
                        [] cm.case = "SmsContactMethod" ->
                              << "address", "label", "country_code", "blacklisted",
                                 "enabled" >>
                        [] cm.case = "PushNotificationContactMethod" ->
                              << "address", "label", "device_type", "sounds",
                                 "blacklisted", "created_at" >>
              IN  /\ Keys(out[i].v) = refkeys \o casekeys
                  /\ \A a \in DOMAIN out[i].v, b \in DOMAIN out[i].v :
                        out[i].v[a][1] = out[i].v[b][1] => a = b

\* a push notification and a phone variant, one of them with html_url, have
\* been encoded
C5_Witness ==
    /\ pc = "done"
    /\ Len(out) = 2
    /\ \E i \in DOMAIN variants : variants[i].case = "PushNotificationContactMethod"
    /\ \E i \in DOMAIN variants : variants[i].case = "PhoneContactMethod"
    /\ \E i \in DOMAIN out : HasKey(out[i].v, "html_url")

\* the keys that are neither Reference fields nor fields of the case the
\* wire object's type string selects
OtherKeys(w) ==
    AllKeys \ ( {"id", "summary", "type", "self", "html_url"}
                \cup ( IF Carries(w, "type") /\ ValueOf(w.v, "type").t = "string"
                       THEN Range(CaseFields(TypeOf(w)))
                       ELSE {} ) )

\* C6 as stated: fields outside the selected case are never read.  Changing
\* one such key of a record in any way (removed, added, null, another value,
\* a value of any JSON type) leaves the outcome of decoding as it was.  Stated
\* here for the records that decode, where the selected case is not in doubt.
C6_OtherFieldsNeverRead ==
    ( Single /\ result.kind = "ok" ) =>
        \A c \in AllChanges :
            c[1] \in OtherKeys(wire[1])
                => ContactMethodDeserialize(Change(wire[1], {c})) = Outcome

\* C6 as amended: two records that agree on the Reference fields and on the
\* fields of the selected case, and whose other fields are each absent, null
\* or of the field's declared type, decode to the same outcome; one with a
\* reference tag and well-formed Reference fields decodes to the
\* Reference-only case.
C6_OtherFieldsWellTyped ==
    ( Single /\ WellTyped(wire[1], OtherKeys(wire[1])) ) =>
        /\ \A c \in AllChanges :
              ( /\ c[1] \in OtherKeys(wire[1])
                /\ WellTyped(Change(wire[1], {c}), OtherKeys(wire[1])) )
                  => ContactMethodDeserialize(Change(wire[1], {c})) = Outcome
        /\ ( /\ \A f \in {"id", "summary", "type", "self"} : Carries(wire[1], f)
             /\ WellTyped(wire[1], AllKeys)
             /\ TypeOf(wire[1]) \in ReferenceTags )
               => /\ Outcome.kind = "ok"
                  /\ Outcome.value.case = "ContactMethodReference"

\* a record with a reference tag that also carries an address and an unknown
\* key has been decoded to the Reference-only case
C6_Witness ==
    /\ Single
    /\ Carries(wire[1], "type")
    /\ ValueOf(wire[1].v, "type") = JStr("sms_contact_method_reference")
    /\ Carries(wire[1], "address")
    /\ Carries(wire[1], ExtraKey)
    /\ result.kind = "ok"
    /\ result.value[1].case = "ContactMethodReference"

\* C7: collection decoding is element-wise and order-preserving.  When every
\* object of the array decodes on its own, the call returns as many variants
\* as there are objects, the i-th being what the i-th object alone decodes to.
C7_ElementWise ==
    /\ pc = "deserialize" =>
          \A i \in DOMAIN acc : Ok(acc[i]) = ContactMethodDeserialize(wire[i])
    /\ ( /\ result.kind # "pending"
         /\ \A i \in DOMAIN wire : ContactMethodDeserialize(wire[i]).kind = "ok" )
       => /\ result.kind = "ok"
          /\ Len(result.value) = Len(wire)
          /\ \A i \in DOMAIN wire :
                Ok(result.value[i]) = ContactMethodDeserialize(wire[i])

\* an array of two different well-formed objects has been decoded
C7_Witness ==
    /\ origin = "wire"
    /\ Len(wire) = 2
    /\ wire[1] # wire[2]
    /\ result.kind = "ok"
    /\ result.value[1].case = "SmsContactMethod"
    /\ result.value[2].case = "EmailContactMethod"

\* C8 as stated: a record that lacks id, self or type is answered with the
\* error MissingField naming an absent one of those three, whatever else it
\* holds; the absence of html_url is never the failure.
C8_ReferenceFieldsFirst ==
    ( Single /\ \E f \in {"id", "self", "type"} : ~Carries(wire[1], f) )
    => /\ result.kind = "err"
       /\ result.error = "MissingField"
       /\ result.field \in {"id", "self", "type"}
       /\ ~Carries(wire[1], result.field)

\* C8 as amended: a record that lacks id, self or type is answered with an
\* error returned to the caller, never a panic and never a variant; when
\* every key it carries is well typed the error is MissingField naming the
\* first absent field in the order id, summary, type, self.  No error names
\* an absent html_url.
C8_ReferenceFieldsUnpacked ==
    Single =>
        /\ ( \E f \in {"id", "self", "type"} : ~Carries(wire[1], f) )
              => /\ result.kind = "err"
                 /\ WellTyped(wire[1], AllKeys)
                       => result = Err("MissingField",
                                       FirstAbsent(wire[1],
                                           << "id", "summary", "type", "self" >>, 1))
        /\ ( result.kind = "err" /\ ~Carries(wire[1], "html_url") )
              => result.field # "html_url"
        /\ ( result.kind = "panic" /\ ~Carries(wire[1], "html_url") )
              => result.msg # "html_url"
        /\ ( result.kind = "ok" /\ Carries(wire[1], "html_url") )
              => ContactMethodDeserialize(
                     Change(wire[1], { << "html_url", "toggle" >> })).kind = "ok"

\* a record of a concrete type without its type key, and one without self
\* whose case fields are missing too, was refused before the match
C8_Witness ==
    /\ Single
    /\ ~Carries(wire[1], "self")
    /\ ~Carries(wire[1], "address")
    /\ ~Carries(wire[1], "html_url")
    /\ Carries(wire[1], "type")
    /\ ValueOf(wire[1].v, "type") = JStr("sms_contact_method")
    /\ result = Err("MissingField", "self")

\* C9: summary is required.  Whatever its type string, a record without
\* summary is refused with an error at unpacking, before the match (so never
\* a panic); every decoded variant's summary is the string the record held.
C9_SummaryRequired ==
    Single =>
        /\ ~Carries(wire[1], "summary") => result.kind = "err"
        /\ ( ~Carries(wire[1], "summary") /\ WellTyped(wire[1], AllKeys)
             /\ Carries(wire[1], "id") )
              => result = Err("MissingField", "summary")
        /\ result.kind = "ok"
              => /\ Carries(wire[1], "summary")
                 /\ JStr(result.value[1].reference.summary)
                       = ValueOf(wire[1].v, "summary")

\* a record with an unknown type string and no summary was refused with
\* MissingField("summary") rather than reaching the match
C9_Witness ==
    /\ Single
    /\ ~Carries(wire[1], "summary")
    /\ Carries(wire[1], "type")
    /\ TypeOf(wire[1]) \in UnknownTags
    /\ result = Err("MissingField", "summary")

\* C10: collection decoding is all-or-nothing.  The call returns variants only
\* if every element decodes; otherwise it ends the way the first failing
\* element ends (an error, or a panic) and nothing of the elements decoded
\* before it is returned, kept or encoded.
C10_AllOrNothing ==
    result.kind # "pending" =>
        LET failing == { i \in DOMAIN wire :
                            ContactMethodDeserialize(wire[i]).kind # "ok" }
        IN  /\ result.kind = "ok"
                  => failing = {} /\ Len(result.value) = Len(wire)
            /\ failing # {}
                  => /\ result = ContactMethodDeserialize(
                                    wire[CHOOSE i \in failing :
                                            \A j \in failing : i <= j])
                     /\ acc = << >>
                     /\ origin = "wire" => variants = << >> /\ out = << >>

\* an array whose first object decodes and whose second lacks summary was
\* refused as a whole
C10_Witness ==
    /\ origin = "wire"
    /\ Len(wire) = 2
    /\ ContactMethodDeserialize(wire[1]).kind = "ok"
    /\ ~Carries(wire[2], "summary")
    /\ pc = "done"
    /\ result = Err("MissingField", "summary")
    /\ variants = << >>

====
